---- MODULE Spec2Model ----
(***************************************************************************)
(* Model of gold/rasterizer.c: the fixed-point golden rasterizer.          *)
(*                                                                         *)
(* C ints are modelled by the integers they denote.  A 32-bit pattern is   *)
(* represented by its two's-complement signed value, so that every value   *)
(* stays inside the range of an int; the bitwise operators below work on   *)
(* that representation (floor division by 2 is the arithmetic shift).      *)
(***************************************************************************)
EXTENDS Integers, Sequences, FiniteSets, TLC

VARIABLES pc, triangle, other, screen, config, z, layout, garbage,
          val, bbox, sample, hit_count, frags, visited, ret

vars == <<pc, triangle, other, screen, config, z, layout, garbage,
          val, bbox, sample, hit_count, frags, visited, ret>>

None == "none"

(***************************************************************************)
(* Integer and bit helpers (the C operators the source uses).              *)
(***************************************************************************)
TRIANGLE_VERTICES == 3

INT_MAX == 2147483647

INT_MIN == -INT_MAX - 1

Pow2(n) == 2 ^ n

\* v >> n on a signed int: the arithmetic shift every mainstream compiler emits.
Shr(v, n) ==
    IF n <= 30 THEN v \div Pow2(n) ELSE (v \div Pow2(30)) \div Pow2(n - 30)

\* v << n on a 32-bit pattern, 0 <= n < 32: the bits above bit 31 - n are
\* shifted out and bit 31 - n becomes the sign.
Shl32(v, n) ==
    IF n = 0 THEN v
    ELSE LET low  == v % Pow2(31 - n)
             sign == (v \div Pow2(31 - n)) % 2
             kept == (low * Pow2(n - 1)) * 2
         IN  IF sign = 1 THEN (kept - Pow2(30)) - Pow2(30) ELSE kept

\* Four bits (0 .. 15) of a 32-bit pattern, nibble 0 the least significant.
Nibble(a, i) == (a \div Pow2(4 * i)) % 16

\* Bit j (0 .. 3) of a nibble.
NibbleBit(a, j) == (a \div Pow2(j)) % 2

AndNibble(a, b) ==
    ((NibbleBit(a, 0) * NibbleBit(b, 0)) + (2 * (NibbleBit(a, 1) * NibbleBit(b, 1))))
    + ((4 * (NibbleBit(a, 2) * NibbleBit(b, 2))) + (8 * (NibbleBit(a, 3) * NibbleBit(b, 3))))

XorNibble(a, b) ==
    (((NibbleBit(a, 0) + NibbleBit(b, 0)) % 2) + (2 * ((NibbleBit(a, 1) + NibbleBit(b, 1)) % 2)))
    + ((4 * ((NibbleBit(a, 2) + NibbleBit(b, 2)) % 2)) + (8 * ((NibbleBit(a, 3) + NibbleBit(b, 3)) % 2)))

\* a & b on 32-bit patterns: nibble by nibble, the top nibble carrying the sign.
BitAnd(a, b) ==
    IF a = b THEN a
    ELSE LET top == AndNibble(Nibble(a, 7), Nibble(b, 7))
         IN  ((AndNibble(Nibble(a, 0), Nibble(b, 0))
               + (Pow2(4) * AndNibble(Nibble(a, 1), Nibble(b, 1))))
              + ((Pow2(8) * AndNibble(Nibble(a, 2), Nibble(b, 2)))
                 + (Pow2(12) * AndNibble(Nibble(a, 3), Nibble(b, 3)))))
             + (((Pow2(16) * AndNibble(Nibble(a, 4), Nibble(b, 4)))
                 + (Pow2(20) * AndNibble(Nibble(a, 5), Nibble(b, 5))))
                + ((Pow2(24) * AndNibble(Nibble(a, 6), Nibble(b, 6)))
                   + (Pow2(28) * (IF top >= 8 THEN top - 16 ELSE top))))

\* a ^ b on unsigned bytes.
BitXor(a, b) ==
    IF a = b THEN 0
    ELSE XorNibble(Nibble(a, 0), Nibble(b, 0))
         + (Pow2(4) * XorNibble(Nibble(a, 1), Nibble(b, 1)))

\* a | b on unsigned bytes: a + b counts the common bits twice.
BitOr(a, b) == IF a = b THEN a ELSE (a + b) - BitAnd(a, b)

\* a / b in C: the quotient truncated toward zero (b > 0).
CDiv(a, b) == IF a >= 0 THEN a \div b ELSE -((-a) \div b)

(***************************************************************************)
(* Utility functions.                                                      *)
(***************************************************************************)
min(a, b) == IF a >= b THEN b ELSE a

max(a, b) == IF a >= b THEN a ELSE b

\* The mutant rounds toward zero: the magnitude is masked, the sign kept.
floor_ss_trunc(v, r_shift, ss_w_lg2) ==
    LET mask == Shl32(-1, r_shift - ss_w_lg2)
    IN  IF v >= 0 \/ v = INT_MIN THEN BitAnd(v, mask) ELSE -BitAnd(-v, mask)

floor_ss(v, r_shift, ss_w_lg2) ==
    LET mask == Shl32(-1, r_shift - ss_w_lg2)
    IN  BitAnd(v, mask)

(***************************************************************************)
(* Data model: a Vertex is [x, y, z, R, G, B], a Triangle [v: 0..2 ->      *)
(* Vertex], a Sample [x, y], a Screen [width, height], a Config [r_shift,  *)
(* ss_w_lg2, ss_i].                                                        *)
(***************************************************************************)
Vertex(vx, vy, i) == [x |-> vx, y |-> vy, z |-> 10 + i, R |-> 20 + i, G |-> 30 + i, B |-> 40 + i]

Tri(p0, p1, p2) ==
    [v |-> [i \in 0 .. (TRIANGLE_VERTICES - 1) |->
                IF i = 0 THEN Vertex(p0[1], p0[2], 0)
                ELSE IF i = 1 THEN Vertex(p1[1], p1[2], 1)
                ELSE Vertex(p2[1], p2[2], 2)]]

Cfg(r, w, i) == [r_shift |-> r, ss_w_lg2 |-> w, ss_i |-> i]

Scr(w, h) == [width |-> w, height |-> h]

Smp(sx, sy) == [x |-> sx, y |-> sy]

(***************************************************************************)
(* Bounding box builder.                                                   *)
(***************************************************************************)
\* The bounding box after the loop over vertices 1 .. i (i = 0: vertex 0 alone).
RECURSIVE VertexBox(_, _)
VertexBox(t, i) ==
    IF i = 0
    THEN [lower_left  |-> Smp(t.v[0].x, t.v[0].y),
          upper_right |-> Smp(t.v[0].x, t.v[0].y),
          valid       |-> TRUE]
    ELSE LET b == VertexBox(t, i - 1)
         IN  [lower_left  |-> Smp(min(b.lower_left.x, t.v[i].x),
                                  min(b.lower_left.y, t.v[i].y)),
              upper_right |-> Smp(max(b.upper_right.x, t.v[i].x),
                                  max(b.upper_right.y, t.v[i].y)),
              valid       |-> b.valid]

\* The mutant tests the box against the screen with strict overlap.
get_bounding_box_strict(t, s, c) ==
    LET b  == VertexBox(t, TRIANGLE_VERTICES - 1)
        fl == Smp(floor_ss(b.lower_left.x, c.r_shift, c.ss_w_lg2),
                  floor_ss(b.lower_left.y, c.r_shift, c.ss_w_lg2))
        fu == Smp(floor_ss(b.upper_right.x, c.r_shift, c.ss_w_lg2),
                  floor_ss(b.upper_right.y, c.r_shift, c.ss_w_lg2))
        cl == Smp(max(fl.x, 0), max(fl.y, 0))
        cu == Smp(min(fu.x, s.width), min(fu.y, s.height))
    IN  [lower_left  |-> cl,
         upper_right |-> cu,
         valid       |-> ~ ((cu.x <= 0) \/ (cu.y <= 0) \/
                            (cl.x >= s.width) \/ (cl.y >= s.height))]

\* The mutant snaps the box and forgets to clip it to the screen.
get_bounding_box_noclip(t, s, c) ==
    LET b  == VertexBox(t, TRIANGLE_VERTICES - 1)
        fl == Smp(floor_ss(b.lower_left.x, c.r_shift, c.ss_w_lg2),
                  floor_ss(b.lower_left.y, c.r_shift, c.ss_w_lg2))
        fu == Smp(floor_ss(b.upper_right.x, c.r_shift, c.ss_w_lg2),
                  floor_ss(b.upper_right.y, c.r_shift, c.ss_w_lg2))
    IN  [lower_left  |-> fl,
         upper_right |-> fu,
         valid       |-> ~ ((fu.x < 0) \/ (fu.y < 0) \/
                            (fl.x > s.width) \/ (fl.y > s.height))]

get_bounding_box(t, s, c) ==
    LET b  == VertexBox(t, TRIANGLE_VERTICES - 1)
        \* Round the bounding box down to the subsample grid.
        fl == Smp(floor_ss(b.lower_left.x, c.r_shift, c.ss_w_lg2),
                  floor_ss(b.lower_left.y, c.r_shift, c.ss_w_lg2))
        fu == Smp(floor_ss(b.upper_right.x, c.r_shift, c.ss_w_lg2),
                  floor_ss(b.upper_right.y, c.r_shift, c.ss_w_lg2))
        \* Clip to the screen.
        cl == Smp(max(fl.x, 0), max(fl.y, 0))
        cu == Smp(min(fu.x, s.width), min(fu.y, s.height))
    IN  [lower_left  |-> cl,
         upper_right |-> cu,
         valid       |-> ~ ((cu.x < 0) \/ (cu.y < 0) \/
                            (cl.x > s.width) \/ (cl.y > s.height))]

(***************************************************************************)
(* Coverage tester.                                                        *)
(***************************************************************************)
\* The three edge functions of the triangle shifted so that s is the origin.
Edges(t, s) ==
    LET v0_x == t.v[0].x - s.x
        v0_y == t.v[0].y - s.y
        v1_x == t.v[1].x - s.x
        v1_y == t.v[1].y - s.y
        v2_x == t.v[2].x - s.x
        v2_y == t.v[2].y - s.y
    IN  <<(v0_x * v1_y) - (v1_x * v0_y),
          (v1_x * v2_y) - (v2_x * v1_y),
          (v2_x * v0_y) - (v0_x * v2_y)>>

\* The mutant takes the other side of every edge as covered.
sample_test_flipped(t, s) ==
    LET e == Edges(t, s)
    IN  (e[1] >= 0) /\ (e[2] > 0) /\ (e[3] >= 0)

sample_test(t, s) ==
    LET e  == Edges(t, s)
        b0 == e[1] <= 0
        b1 == e[2] < 0
        b2 == e[3] <= 0
    IN  b0 /\ b1 /\ b2

(***************************************************************************)
(* Subsample jitter hash.                                                  *)
(***************************************************************************)
\* The arrays are tuples here: arr[i] of the source is arr[i + 1] below.
\* The mutant masks to the low ss_w_lg2 bits instead of the low 8 - ss_w_lg2.
hash_40to8_lowmask(arr40, shift) ==
    LET arr8 == BitXor(arr40[1], arr40[5])
    IN  BitAnd(arr8, Pow2(shift) - 1)

\* The mutant forgets the mask.
hash_40to8_nomask(arr40, shift) ==
    LET arr32 == <<BitXor(arr40[1], arr40[2]), BitXor(arr40[2], arr40[3]),
                   BitXor(arr40[3], arr40[4]), BitXor(arr40[4], arr40[5])>>
        arr16 == <<BitXor(arr32[1], arr32[3]), BitXor(arr32[2], arr32[4])>>
    IN  BitXor(arr16[1], arr16[2])

\* The mutant drops the last level of the fold tree.
hash_40to8_short(arr40, shift) ==
    LET mask  == Shr(255, shift)
        arr32 == <<BitXor(arr40[1], arr40[2]), BitXor(arr40[2], arr40[3]),
                   BitXor(arr40[3], arr40[4]), BitXor(arr40[4], arr40[5])>>
        arr16 == <<BitXor(arr32[1], arr32[3]), BitXor(arr32[2], arr32[4])>>
    IN  BitAnd(arr16[1], mask)

hash_40to8(arr40, shift) ==
    LET mask  == Shr(255, shift)
        arr32 == <<BitXor(arr40[1], arr40[2]), BitXor(arr40[2], arr40[3]),
                   BitXor(arr40[3], arr40[4]), BitXor(arr40[4], arr40[5])>>
        arr16 == <<BitXor(arr32[1], arr32[3]), BitXor(arr32[2], arr32[4])>>
        arr8  == BitXor(arr16[1], arr16[2])
    IN  BitAnd(arr8, mask)

\* Byte i (0 the least significant) of the long v, sign-extended.
ByteOf(v, i) == Shr(v, 8 * i) % 256

\* Byte i of the long v << sh.
ShlByte(v, sh, i) ==
    IF 8 * i >= sh THEN Shr(v, (8 * i) - sh) % 256
    ELSE IF sh - (8 * i) >= 8 THEN 0
    ELSE (v % Pow2(8 - (sh - (8 * i)))) * Pow2(sh - (8 * i))

\* Byte i of the 64-bit long (hi << 20) | lo.
WordByte(hi, lo, i) == BitOr(ShlByte(hi, 20, i), ByteOf(lo, i))

(* What the 5-byte array holds after the two stores through the long     *)
(* pointers, which write sizeof(long) bytes into 5-byte arrays.  The      *)
(* outcome depends on the build:                                           *)
(*   le64          8-byte long, low byte first, the 3 bytes written past   *)
(*                 each array land in padding;                             *)
(*   le64_overlap  as le64, with arr40_2 laid out directly below arr40_1,  *)
(*                 so that the second store's bytes 5..7 overwrite         *)
(*                 arr40_1[0..2];                                          *)
(*   be64          8-byte long, high byte first;                           *)
(*   le32          4-byte long: byte 4 of each array is never written and  *)
(*                 is read uninitialised (garbage1, garbage2).             *)
Layouts == {"le64", "le64_overlap", "be64", "le32"}

\* Element i (0 .. 4) of the array after the stores: first is the word stored
\* into it, later the words stored afterwards through the other pointer.
StoredByte(first, later, lay, g, i) ==
    CASE lay = "le64"         -> WordByte(first[1], first[2], i)
      [] lay = "le64_overlap" -> IF Len(later) > 0 /\ i <= 2
                                 THEN WordByte(later[1][1], later[1][2], i + 5)
                                 ELSE WordByte(first[1], first[2], i)
      [] lay = "be64"         -> WordByte(first[1], first[2], 7 - i)
      [] lay = "le32"         -> IF i = 4 THEN g
                                 ELSE WordByte(first[1], first[2], i)

Stored(first, later, lay, g) ==
    <<StoredByte(first, later, lay, g, 0), StoredByte(first, later, lay, g, 1),
      StoredByte(first, later, lay, g, 2), StoredByte(first, later, lay, g, 3),
      StoredByte(first, later, lay, g, 4)>>

jitter_sample(s, ss_w_lg2) ==
    LET x == Shr(s.x, 4)
        y == Shr(s.y, 4)
        arr40_1 == Stored(<<y, x>>, << <<x, y>> >>, layout, garbage[1])
        arr40_2 == Stored(<<x, y>>, << >>, layout, garbage[2])
    IN  Smp(hash_40to8(arr40_1, ss_w_lg2), hash_40to8(arr40_2, ss_w_lg2))

(***************************************************************************)
(* Orchestrator: rasterize_triangle, one action per position in its code.  *)
(***************************************************************************)
\* Entry: hit_count = 0, the bounding box, and the outer loop's initialiser.
Call ==
    /\ pc = "call"
    /\ hit_count' = 0
    /\ bbox' = get_bounding_box(triangle, screen, config)
    /\ sample' = [sample EXCEPT !.x = bbox'.lower_left.x]
    /\ pc' = "outer"
    /\ UNCHANGED <<triangle, other, screen, config, z, layout, garbage, val,
                   frags, visited, ret>>

\* The outer loop's condition holds: the inner loop's initialiser.
OuterEnter ==
    /\ pc = "outer"
    /\ sample.x <= bbox.upper_right.x
    /\ sample' = [sample EXCEPT !.y = bbox.lower_left.y]
    /\ pc' = "inner"
    /\ UNCHANGED <<triangle, other, screen, config, z, layout, garbage, val,
                   bbox, hit_count, frags, visited, ret>>

\* The inner loop's condition fails: the outer loop's increment.
InnerExit ==
    /\ pc = "inner"
    /\ ~ (sample.y <= bbox.upper_right.y)
    /\ sample' = [sample EXCEPT !.x = sample.x + config.ss_i]
    /\ pc' = "outer"
    /\ UNCHANGED <<triangle, other, screen, config, z, layout, garbage, val,
                   bbox, hit_count, frags, visited, ret>>

\* The mutant leaves the sub-pixel offset in fixed-point units.
FragmentAt_nodiv(s) ==
    LET hit_location == Smp(Shr(s.x, config.r_shift), Shr(s.y, config.r_shift))
        subsample    == Smp(s.x - (hit_location.x * Pow2(config.r_shift)),
                            s.y - (hit_location.y * Pow2(config.r_shift)))
        f            == [z |-> triangle.v[0].z, R |-> triangle.v[0].R,
                         G |-> triangle.v[0].G, B |-> triangle.v[0].B]
    IN  [hit_location |-> hit_location, subsample |-> subsample, f |-> f]

\* What process_fragment is called with for a hit at nominal sample s.
FragmentAt(s) ==
    LET hit_location == Smp(Shr(s.x, config.r_shift), Shr(s.y, config.r_shift))
        subsample    == Smp(CDiv(s.x - (hit_location.x * Pow2(config.r_shift)), config.ss_i),
                            CDiv(s.y - (hit_location.y * Pow2(config.r_shift)), config.ss_i))
        f            == [z |-> triangle.v[0].z, R |-> triangle.v[0].R,
                         G |-> triangle.v[0].G, B |-> triangle.v[0].B]
    IN  [hit_location |-> hit_location, subsample |-> subsample, f |-> f]

\* The nominal sample s displaced by its jitter, scaled by << 2.
Jittered(s) ==
    LET jitter == jitter_sample(s, config.ss_w_lg2)
    IN  Smp(s.x + (jitter.x * 4), s.y + (jitter.y * 4))

\* The mutant delivers a fragment for every candidate and counts only hits.
Body_eager ==
    /\ pc = "inner"
    /\ sample.y <= bbox.upper_right.y
    /\ LET hit == sample_test(triangle, Jittered(sample))
       IN  /\ hit_count' = IF hit THEN hit_count + 1 ELSE hit_count
           /\ frags' = IF z THEN Append(frags, FragmentAt(sample)) ELSE frags
    /\ visited' = visited + 1
    /\ sample' = [sample EXCEPT !.y = sample.y + config.ss_i]
    /\ UNCHANGED <<pc, triangle, other, screen, config, z, layout, garbage, val,
                   bbox, ret>>

\* The inner loop's condition holds: its body and its increment.  visited
\* counts the candidate samples.
Body ==
    /\ pc = "inner"
    /\ sample.y <= bbox.upper_right.y
    /\ LET hit == sample_test(triangle, Jittered(sample))
       IN  /\ hit_count' = IF hit THEN hit_count + 1 ELSE hit_count
           /\ frags' = IF hit /\ z THEN Append(frags, FragmentAt(sample)) ELSE frags
    /\ visited' = visited + 1
    /\ sample' = [sample EXCEPT !.y = sample.y + config.ss_i]
    /\ UNCHANGED <<pc, triangle, other, screen, config, z, layout, garbage, val,
                   bbox, ret>>

\* The outer loop's condition fails: return hit_count.
Return ==
    /\ pc = "outer"
    /\ ~ (sample.x <= bbox.upper_right.x)
    /\ ret' = hit_count
    /\ pc' = "done"
    /\ UNCHANGED <<triangle, other, screen, config, z, layout, garbage, val,
                   bbox, sample, hit_count, frags, visited>>

Next == Call \/ OuterEnter \/ Body \/ InnerExit \/ Return

(***************************************************************************)
(* Inputs of rasterize_triangle.                                           *)
(***************************************************************************)
NPoints == 5

MaxGarbage == 0

\* Vertex positions: three inside the screens below (two of them off the
\* subsample grid), one left of the screen, one right of and above it, one
\* below it, one more inside.
PointSeq ==
    << <<0, 0>>, <<4, 30>>, <<30, 4>>, <<-20, 20>>, <<44, 44>>, <<20, -20>>,
       <<16, 16>> >>

VPoints == {PointSeq[i] : i \in 1 .. min(NPoints, Len(PointSeq))}

Triangles == {Tri(p0, p1, p2) : p0 \in VPoints, p1 \in VPoints, p2 \in VPoints}

\* Screen and config (r_shift, ss_w_lg2, ss_i).  Four configs keep
\* ss_i = 1 << (r_shift - ss_w_lg2), with 8, 7 and no jitter bits left by the
\* mask; the last one has a stride off the grid.
Setups ==
    {<<Scr(32, 32), Cfg(4, 0, 16)>>, <<Scr(32, 32), Cfg(4, 1, 8)>>,
     <<Scr(32, 32), Cfg(12, 8, 16)>>, <<Scr(40, 16), Cfg(11, 8, 8)>>,
     <<Scr(40, 16), Cfg(4, 0, 12)>>}

\* What an uninitialised byte may hold.
GarbageBytes == {255} \cup (0 .. MaxGarbage)

\* The build and its two uninitialised bytes, which matter in le32 only.
Builds ==
    {<<l, <<0, 0>> >> : l \in Layouts \ {"le32"}}
        \cup {<<"le32", <<g, 255 - g>> >> : g \in GarbageBytes}

\* The concrete scenario of the specification's section 8.
ScenarioTriangle == Tri(<<0, 0>>, <<160, 0>>, <<0, 160>>)

ScenarioScreen == Scr(256, 256)

ScenarioConfig == Cfg(4, 0, 16)

Inputs ==
    {<<t, su[1], su[2]>> : t \in Triangles, su \in Setups}
        \cup {<<ScenarioTriangle, ScenarioScreen, ScenarioConfig>>}

Init ==
    /\ pc = "call"
    /\ \E i \in Inputs :
          /\ triangle = i[1]
          /\ screen = i[2]
          /\ config = i[3]
    /\ z \in BOOLEAN
    /\ \E b \in Builds :
          /\ layout = b[1]
          /\ garbage = b[2]
    /\ other = None
    /\ val = None
    /\ bbox = None
    /\ sample = [x |-> None, y |-> None]
    /\ hit_count = None
    /\ frags = << >>
    /\ visited = 0
    /\ ret = None

Spec == Init /\ [][Next]_vars

(***************************************************************************)
(* Reference definitions for the properties of rasterize_triangle.         *)
(***************************************************************************)
\* The samples (x, y), (x, y + step), ... up to y = hi.
RECURSIVE Column(_, _, _, _)
Column(x, y, hi, step) ==
    IF y > hi THEN << >> ELSE <<Smp(x, y)>> \o Column(x, y + step, hi, step)

\* The samples of the box b in scan order: x ascending, y ascending innermost.
RECURSIVE Scan(_, _, _)
Scan(x, b, step) ==
    IF x > b.upper_right.x THEN << >>
    ELSE Column(x, b.lower_left.y, b.upper_right.y, step) \o Scan(x + step, b, step)

CoveredJittered(s) == sample_test(triangle, Jittered(s))

\* The covered candidates of this call, in scan order.
ScanHits ==
    LET b == get_bounding_box(triangle, screen, config)
    IN  SelectSeq(Scan(b.lower_left.x, b, config.ss_i), CoveredJittered)

\* The subsample-grid points (multiples of ss_i) inside the screen.
ScreenGrid ==
    {Smp(gx, gy) : gx \in {v \in 0 .. screen.width : v % config.ss_i = 0},
                   gy \in {v \in 0 .. screen.height : v % config.ss_i = 0}}

VerticesInScreen ==
    \A i \in 0 .. (TRIANGLE_VERTICES - 1) :
        /\ 0 <= triangle.v[i].x /\ triangle.v[i].x <= screen.width
        /\ 0 <= triangle.v[i].y /\ triangle.v[i].y <= screen.height

\* The brute-force count: grid points passing the edge test unjittered.
UnjitteredCount == Cardinality({g \in ScreenGrid : sample_test(triangle, g)})

ConfigInvariant ==
    /\ 0 <= config.ss_w_lg2
    /\ config.ss_w_lg2 <= config.r_shift
    /\ config.ss_i = Pow2(config.r_shift - config.ss_w_lg2)

IsScenario ==
    /\ triangle = ScenarioTriangle
    /\ screen = ScenarioScreen
    /\ config = ScenarioConfig

(***************************************************************************)
(* C2 (as stated): with ss_w_lg2 = 0 and ss_i = 1 << r_shift, for a        *)
(* triangle whose vertices lie inside the screen, rasterize_triangle       *)
(* returns the number of grid points passing sample_test unjittered.       *)
(* Violated: the mask 0xFF >> 0 keeps all 8 jitter bits.                   *)
(***************************************************************************)
C2_AsStated ==
    (/\ pc = "done"
     /\ config.ss_w_lg2 = 0
     /\ config.ss_i = Pow2(config.r_shift)
     /\ VerticesInScreen)
        => ret = UnjitteredCount

(***************************************************************************)
(* C2 (amended): the jitter collapses to 0 when ss_w_lg2 = 8 (the mask is  *)
(* 0xFF >> 8 = 0); then, with ss_i = 1 << (r_shift - 8), for every         *)
(* triangle whose vertices lie inside the screen, rasterize_triangle       *)
(* returns exactly the number of subsample-grid points inside the screen   *)
(* for which sample_test, applied to the unjittered grid point, is true.   *)
(***************************************************************************)
C2_NoJitterCount ==
    (/\ pc = "done"
     /\ config.ss_w_lg2 = 8
     /\ config.r_shift >= 8
     /\ config.ss_i = Pow2(config.r_shift - 8)
     /\ VerticesInScreen)
        => ret = UnjitteredCount

C2_Witness ==
    /\ pc = "done"
    /\ config.ss_w_lg2 = 8
    /\ config.ss_i = Pow2(config.r_shift - 8)
    /\ VerticesInScreen
    /\ ret >= 2
    /\ ret < visited

(***************************************************************************)
(* C3 (as stated): in the concrete scenario the bounding box is the valid  *)
(* box [(0,0),(160,160)] and the hit count is the number of grid points    *)
(* of the box with x + y <= 160, i.e. 66.                                  *)
(* Violated: the hit count is 0.                                           *)
(***************************************************************************)
C3_AsStated ==
    (pc = "done" /\ IsScenario)
        => /\ bbox = [lower_left |-> Smp(0, 0), upper_right |-> Smp(160, 160),
                      valid |-> TRUE]
           /\ ret = Cardinality({g \in ScreenGrid :
                                    g.x <= 160 /\ g.y <= 160 /\ g.x + g.y <= 160})
           /\ ret = 66

(***************************************************************************)
(* C3 (amended): in the concrete scenario get_bounding_box returns the     *)
(* valid box [(0,0),(160,160)], all 121 grid points of the box are         *)
(* visited, and rasterize_triangle returns 0: the vertex order             *)
(* (0,0),(160,0),(0,160) is the winding sample_test does not cover.        *)
(***************************************************************************)
C3_ScenarioNoHits ==
    (pc = "done" /\ IsScenario)
        => /\ bbox = [lower_left |-> Smp(0, 0), upper_right |-> Smp(160, 160),
                      valid |-> TRUE]
           /\ visited = 121
           /\ ret = 0
           /\ frags = << >>

C3_Witness == pc = "done" /\ IsScenario /\ z /\ visited = 121

(***************************************************************************)
(* C5: whenever get_bounding_box yields valid = false, rasterize_triangle  *)
(* visits no candidate sample, calls process_fragment never and returns 0  *)
(* (screens with width, height >= 0, any ss_i >= 1).                       *)
(***************************************************************************)
C5_InvalidBoxNoSamples ==
    (/\ pc # "call"
     /\ screen.width >= 0 /\ screen.height >= 0
     /\ config.ss_i >= 1
     /\ ~ bbox.valid)
        => /\ visited = 0
           /\ frags = << >>
           /\ hit_count = 0
           /\ (pc = "done" => ret = 0)

C5_Witness ==
    /\ pc = "done"
    /\ ~ bbox.valid
    /\ \A i \in 0 .. (TRIANGLE_VERTICES - 1) : triangle.v[i].x < 0
    /\ \E i \in 0 .. (TRIANGLE_VERTICES - 1) : triangle.v[i].y > 0
    /\ ret = 0

(***************************************************************************)
(* C8: the process_fragment calls of one rasterize_triangle call are       *)
(* exactly the covered candidates in scan order (x ascending outermost, y  *)
(* ascending innermost), one per hit, and their number is the returned     *)
(* hit count; with the buffer absent no call is made and the hit count is  *)
(* the same.                                                               *)
(***************************************************************************)
C8_FragmentsInScanOrder ==
    (pc = "done")
        => LET ref == ScanHits
           IN  /\ ret = Len(ref)
               /\ frags = IF z THEN [i \in 1 .. Len(ref) |-> FragmentAt(ref[i])]
                               ELSE << >>

C8_Witness ==
    /\ pc = "done"
    /\ z
    /\ Len(frags) >= 3
    /\ Len(frags) < visited
    /\ \E i \in 1 .. (Len(frags) - 1) :
          frags[i].hit_location.x < frags[i + 1].hit_location.x

(***************************************************************************)
(* C9: under ss_i = 1 << (r_shift - ss_w_lg2), 0 <= ss_w_lg2 <= r_shift    *)
(* and a screen with width, height >= 0, every candidate sample is a       *)
(* multiple of ss_i inside [0, width] x [0, height], and every delivered   *)
(* (hit_location, subsample) pair gives back its nominal sample as         *)
(* (hit_location << r_shift) + subsample * ss_i on each axis, with         *)
(* 0 <= hit_location <= extent >> r_shift and 0 <= subsample < 2^ss_w_lg2. *)
(***************************************************************************)
C9_PairIdentifies(fr, s) ==
    LET r == config.r_shift
    IN  /\ (fr.hit_location.x * Pow2(r)) + (fr.subsample.x * config.ss_i) = s.x
        /\ (fr.hit_location.y * Pow2(r)) + (fr.subsample.y * config.ss_i) = s.y
        /\ 0 <= fr.hit_location.x /\ fr.hit_location.x <= Shr(screen.width, r)
        /\ 0 <= fr.hit_location.y /\ fr.hit_location.y <= Shr(screen.height, r)
        /\ 0 <= fr.subsample.x /\ fr.subsample.x < Pow2(config.ss_w_lg2)
        /\ 0 <= fr.subsample.y /\ fr.subsample.y < Pow2(config.ss_w_lg2)

C9_CandidatesAndPairs ==
    (ConfigInvariant /\ screen.width >= 0 /\ screen.height >= 0)
        => /\ (pc = "inner" /\ sample.y <= bbox.upper_right.y)
                => /\ sample.x % config.ss_i = 0
                   /\ sample.y % config.ss_i = 0
                   /\ 0 <= sample.x /\ sample.x <= screen.width
                   /\ 0 <= sample.y /\ sample.y <= screen.height
           /\ (pc = "done" /\ z)
                => LET ref == ScanHits
                   IN  /\ Len(frags) = Len(ref)
                       /\ \A i \in 1 .. Len(frags) : C9_PairIdentifies(frags[i], ref[i])
                       /\ \A i, j \in 1 .. Len(frags) :
                             (/\ frags[i].hit_location = frags[j].hit_location
                              /\ frags[i].subsample = frags[j].subsample) => i = j

C9_Witness ==
    /\ pc = "done"
    /\ z
    /\ ConfigInvariant
    /\ \E i \in 1 .. Len(frags) :
          /\ frags[i].hit_location.x >= 1
          /\ frags[i].subsample.y = 1

(***************************************************************************)
(* floor_ss on its own: val = <<val, r_shift, ss_w_lg2>>.                  *)
(***************************************************************************)
IntBits == 32

MaxFloorVal == 20

FloorVals ==
    {INT_MIN, INT_MIN + 1, -Pow2(30) - 1, -Pow2(30), -65537, -65536, -4097,
     65535, 65536, Pow2(30) - 1, Pow2(30), INT_MAX - 1, INT_MAX}
        \cup (-MaxFloorVal .. MaxFloorVal)

FloorArgs ==
    {<<v, r, w>> : v \in FloorVals,
                   r \in 0 .. (IntBits - 1), w \in 0 .. (IntBits - 1)}

Idle ==
    /\ triangle = None /\ other = None /\ screen = None /\ config = None
    /\ z = FALSE /\ layout = "le64" /\ garbage = <<0, 0>>
    /\ bbox = None /\ sample = None /\ hit_count = None
    /\ frags = << >> /\ visited = 0

InitFloor ==
    /\ pc = "floor_ss"
    /\ val \in {a \in FloorArgs : a[3] <= a[2]}
    /\ ret = None
    /\ Idle

CallFloor ==
    /\ pc = "floor_ss"
    /\ ret' = floor_ss(val[1], val[2], val[3])
    /\ pc' = "floor_ss_done"
    /\ UNCHANGED <<triangle, other, screen, config, z, layout, garbage, val,
                   bbox, sample, hit_count, frags, visited>>

SpecFloor == InitFloor /\ [][CallFloor]_vars

\* 2^k - 1, without forming 2^31.
Ones(k) == IF k = 31 THEN INT_MAX ELSE Pow2(k) - 1

\* The 32-bit value v is a multiple of 2^k.
MultipleOfPow2(v, k) ==
    IF k = 31 THEN v = 0 \/ v = INT_MIN ELSE v % Pow2(k) = 0

(***************************************************************************)
(* C7: for every 32-bit val and 0 <= ss_w_lg2 <= r_shift < 32, floor_ss    *)
(* returns the greatest multiple of c = 2^(r_shift - ss_w_lg2) that is     *)
(* <= val: a multiple of c, result <= val, val - result < c; negative      *)
(* values round toward negative infinity.                                  *)
(***************************************************************************)
C7_FloorToGrid ==
    (pc = "floor_ss_done")
        => LET k == val[2] - val[3]
           IN  /\ INT_MIN <= ret /\ ret <= INT_MAX
               /\ MultipleOfPow2(ret, k)
               /\ ret <= val[1]
               /\ val[1] - ret <= Ones(k)

C7_Witness ==
    /\ pc = "floor_ss_done"
    /\ val[1] < 0
    /\ val[1] > -MaxFloorVal
    /\ val[2] - val[3] >= 2
    /\ ret < val[1]

(***************************************************************************)
(* get_bounding_box on its own.                                            *)
(***************************************************************************)
BoxCoord == 1

BoxPoints == (-BoxCoord .. BoxCoord) \X (-BoxCoord .. BoxCoord)

BoxScreens == {Scr(w, h) : w \in {0, BoxCoord}, h \in {0, BoxCoord}}

\* Grid cells of width 1, 2 and 4.
BoxConfigs == {Cfg(2, 2, 1), Cfg(2, 1, 2), Cfg(2, 0, 4)}

InitBBox ==
    /\ pc = "get_bounding_box"
    /\ \E p0 \in BoxPoints, p1 \in BoxPoints, p2 \in BoxPoints :
          triangle = Tri(p0, p1, p2)
    /\ screen \in BoxScreens
    /\ config \in BoxConfigs
    /\ other = None /\ z = FALSE /\ layout = "le64" /\ garbage = <<0, 0>>
    /\ val = None /\ bbox = None /\ sample = None /\ hit_count = None
    /\ frags = << >> /\ visited = 0 /\ ret = None

CallBBox ==
    /\ pc = "get_bounding_box"
    /\ bbox' = get_bounding_box(triangle, screen, config)
    /\ pc' = "get_bounding_box_done"
    /\ UNCHANGED <<triangle, other, screen, config, z, layout, garbage, val,
                   sample, hit_count, frags, visited, ret>>

SpecBBox == InitBBox /\ [][CallBBox]_vars

SetMin(S) == CHOOSE m \in S : \A n \in S : m <= n

SetMax(S) == CHOOSE m \in S : \A n \in S : m >= n

\* The unclipped box snapped to the grid, from the vertex sets.
SnappedBox ==
    LET xs == {triangle.v[i].x : i \in 0 .. (TRIANGLE_VERTICES - 1)}
        ys == {triangle.v[i].y : i \in 0 .. (TRIANGLE_VERTICES - 1)}
    IN  [lower_left  |-> Smp(floor_ss(SetMin(xs), config.r_shift, config.ss_w_lg2),
                             floor_ss(SetMin(ys), config.r_shift, config.ss_w_lg2)),
         upper_right |-> Smp(floor_ss(SetMax(xs), config.r_shift, config.ss_w_lg2),
                             floor_ss(SetMax(ys), config.r_shift, config.ss_w_lg2))]

(***************************************************************************)
(* C4: for a screen with width, height >= 0 and 0 <= ss_w_lg2 <= r_shift,  *)
(* get_bounding_box returns valid = false iff the unclipped snapped box    *)
(* has upper_right.x < 0 or upper_right.y < 0 or lower_left.x > width or   *)
(* lower_left.y > height; a box touching the screen at a boundary is       *)
(* valid.                                                                  *)
(***************************************************************************)
C4_ValidIffOverlap ==
    (/\ pc = "get_bounding_box_done"
     /\ screen.width >= 0 /\ screen.height >= 0
     /\ 0 <= config.ss_w_lg2 /\ config.ss_w_lg2 <= config.r_shift)
        => LET sb == SnappedBox
           IN  (~ bbox.valid) <=> \/ sb.upper_right.x < 0
                                  \/ sb.upper_right.y < 0
                                  \/ sb.lower_left.x > screen.width
                                  \/ sb.lower_left.y > screen.height

C4_Witness ==
    /\ pc = "get_bounding_box_done"
    /\ bbox.valid
    /\ SnappedBox.upper_right.x = 0
    /\ SnappedBox.lower_left.y = screen.height
    /\ SnappedBox.lower_left.x < 0

(***************************************************************************)
(* sample_test on two triangles that share an edge.                        *)
(***************************************************************************)
MaxGrid == 2

GridPoints == (0 .. MaxGrid) \X (0 .. MaxGrid)

\* (q - p) x (a - p): its sign is the side of the line pq that a lies on.
Cross(p, q, a) ==
    ((q[1] - p[1]) * (a[2] - p[2])) - ((a[1] - p[1]) * (q[2] - p[2]))

\* s lies on the closed segment pq.
OnSegment(s, p, q) ==
    /\ Cross(p, q, s) = 0
    /\ min(p[1], q[1]) <= s[1] /\ s[1] <= max(p[1], q[1])
    /\ min(p[2], q[2]) <= s[2] /\ s[2] <= max(p[2], q[2])

\* The triangle with vertices p0, p1, p2 in this cyclic order, in which the
\* edge p0 -> p1 is edge number e (0: 0->1, 1: 1->2, 2: 2->0).
TriWithEdge(p0, p1, p2, e) ==
    IF e = 0 THEN Tri(p0, p1, p2)
    ELSE IF e = 1 THEN Tri(p2, p0, p1)
    ELSE Tri(p1, p2, p0)

\* Two non-degenerate triangles on opposite sides of the edge pq, which the
\* first traverses p -> q and the second q -> p, and a sample on that edge.
InitTest ==
    /\ pc = "sample_test"
    /\ \E p \in GridPoints, q \in GridPoints :
          /\ p # q
          /\ \E a \in GridPoints, b \in GridPoints :
                /\ Cross(p, q, a) * Cross(p, q, b) < 0
                /\ \E s \in GridPoints :
                      /\ OnSegment(s, p, q)
                      /\ sample = Smp(s[1], s[2])
                      /\ \E e1 \in 0 .. 2, e2 \in 0 .. 2 :
                            /\ triangle = TriWithEdge(p, q, a, e1)
                            /\ other = TriWithEdge(q, p, b, e2)
    /\ screen = None /\ config = None
    /\ z = FALSE /\ layout = "le64" /\ garbage = <<0, 0>>
    /\ val = None /\ bbox = None /\ hit_count = None
    /\ frags = << >> /\ visited = 0 /\ ret = None

\* sample_test for each of the two triangles.
CallTest ==
    /\ pc = "sample_test"
    /\ ret' = <<sample_test(triangle, sample), sample_test(other, sample)>>
    /\ pc' = "sample_test_done"
    /\ UNCHANGED <<triangle, other, screen, config, z, layout, garbage, val,
                   bbox, sample, hit_count, frags, visited>>

SpecTest == InitTest /\ [][CallTest]_vars

Pt(t, i) == <<t.v[i].x, t.v[i].y>>

\* <<i, j>>: edge i of triangle is edge j of other, traversed the other way.
SharedEdges ==
    {e \in (0 .. 2) \X (0 .. 2) :
        /\ Pt(triangle, e[1]) = Pt(other, (e[2] + 1) % 3)
        /\ Pt(triangle, (e[1] + 1) % 3) = Pt(other, e[2])}

\* The winding sample_test covers: the edge functions are negative inside.
Covering(t) == Cross(Pt(t, 0), Pt(t, 1), Pt(t, 2)) < 0

\* The sample is on a shared edge, and not at one of its two vertices.
InsideSharedEdge ==
    \E e \in SharedEdges :
        /\ OnSegment(<<sample.x, sample.y>>, Pt(triangle, e[1]), Pt(triangle, (e[1] + 1) % 3))
        /\ <<sample.x, sample.y>> # Pt(triangle, e[1])
        /\ <<sample.x, sample.y>> # Pt(triangle, (e[1] + 1) % 3)

(***************************************************************************)
(* C1: for two non-degenerate triangles that share an edge, traversed in   *)
(* opposite directions, and lie on opposite sides of it, every sample on   *)
(* the shared edge is covered by exactly one of the two, whichever edge    *)
(* index the shared edge has in each.  Stated here on the cases most       *)
(* favourable to it: both triangles in the covered winding, the sample     *)
(* strictly between the two shared vertices.                               *)
(* Violated: covered by both when the edge is 0->1 or 2->0 in both         *)
(* triangles, by neither when it is 1->2 in both.                          *)
(***************************************************************************)
C1_FillRulePartition ==
    (/\ pc = "sample_test_done"
     /\ Covering(triangle) /\ Covering(other)
     /\ InsideSharedEdge)
        => (ret[1] # ret[2])

(***************************************************************************)
(* C1, what sample_test does on those cases: the sample is covered by      *)
(* exactly one triangle iff the shared edge is edge 1->2 of exactly one of *)
(* them, by both iff it is edge 1->2 of neither, by none iff of both.      *)
(***************************************************************************)
C1_ByEdgeIndex ==
    (/\ pc = "sample_test_done"
     /\ Covering(triangle) /\ Covering(other)
     /\ InsideSharedEdge)
        => \A e \in SharedEdges :
              /\ ret[1] = (e[1] # 1)
              /\ ret[2] = (e[2] # 1)

C1_Witness ==
    /\ pc = "sample_test_done"
    /\ Covering(triangle) /\ Covering(other)
    /\ InsideSharedEdge
    /\ ret[1] /\ ~ ret[2]

(***************************************************************************)
(* jitter_sample and hash_40to8 on their own.  For jitter_sample val is    *)
(* ss_w_lg2, for hash_40to8 it is <<arr40, shift>>.                        *)
(***************************************************************************)
MaxJitterCoord == 17

MaxHashByte == 1

JitterCoords ==
    {INT_MIN, -65536, -4096, -17, -16, -1, 255, 256, 4080, 4095, 4096, 65535,
     65536, 1048576, INT_MAX}
        \cup (0 .. MaxJitterCoord)

MaxShift == 8

HashBytes == {128, 255} \cup (0 .. MaxHashByte)

InitJitter ==
    /\ \/ /\ pc = "jitter_sample"
          /\ sample \in {Smp(sx, sy) : sx \in JitterCoords, sy \in JitterCoords}
          /\ val \in 0 .. MaxShift
          /\ \E b \in Builds :
                /\ layout = b[1]
                /\ garbage = b[2]
       \/ /\ pc = "hash_40to8"
          /\ \E b0 \in HashBytes, b1 \in HashBytes, b2 \in HashBytes,
                b3 \in HashBytes, b4 \in HashBytes, sh \in 0 .. MaxShift :
                val = << <<b0, b1, b2, b3, b4>>, sh >>
          /\ sample = None
          /\ layout = "le64"
          /\ garbage = <<0, 0>>
    /\ triangle = None /\ other = None /\ screen = None /\ config = None
    /\ z = FALSE /\ bbox = None /\ hit_count = None
    /\ frags = << >> /\ visited = 0 /\ ret = None

CallJitter ==
    /\ pc = "jitter_sample"
    /\ ret' = jitter_sample(sample, val)
    /\ pc' = "jitter_sample_done"
    /\ UNCHANGED <<triangle, other, screen, config, z, layout, garbage, val,
                   bbox, sample, hit_count, frags, visited>>

CallHash ==
    /\ pc = "hash_40to8"
    /\ ret' = hash_40to8(val[1], val[2])
    /\ pc' = "hash_40to8_done"
    /\ UNCHANGED <<triangle, other, screen, config, z, layout, garbage, val,
                   bbox, sample, hit_count, frags, visited>>

NextJitter == CallJitter \/ CallHash

SpecJitter == InitJitter /\ [][NextJitter]_vars

(***************************************************************************)
(* C6: for every sample (negative coordinates included) and every          *)
(* ss_w_lg2 in 0 .. 8, both components returned by jitter_sample lie in    *)
(* [0, 2^(8 - ss_w_lg2)), a bound that does not grow with ss_w_lg2.        *)
(***************************************************************************)
C6_JitterRange ==
    (pc = "jitter_sample_done")
        => /\ 0 <= ret.x /\ ret.x < Pow2(MaxShift - val)
           /\ 0 <= ret.y /\ ret.y < Pow2(MaxShift - val)
           /\ (val < MaxShift => Pow2(MaxShift - (val + 1)) <= Pow2(MaxShift - val))

C6_Witness ==
    /\ pc = "jitter_sample_done"
    /\ sample.x < 0
    /\ sample.y < 0
    /\ val = 5
    /\ ret.x = 7
    /\ ret.y > 0

(***************************************************************************)
(* C10: the fold tree of hash_40to8 cancels the three middle bytes: the    *)
(* result is (byte0 XOR byte4) AND (0xFF >> shift).  With the two words    *)
(* stored low byte first in full (the le64 build), for 0 <= x, y < 2^16    *)
(* and 0 <= ss_w_lg2 <= 8, jitter.x = ((x >> 4) AND 0xFF) AND (0xFF >>     *)
(* ss_w_lg2), whatever y is, and jitter.y likewise from y alone.           *)
(***************************************************************************)
C10_FoldCancels ==
    /\ (pc = "hash_40to8_done")
          => ret = BitAnd(BitXor(val[1][1], val[1][5]), 255 \div Pow2(val[2]))
    /\ (/\ pc = "jitter_sample_done"
        /\ layout = "le64"
        /\ 0 <= sample.x /\ sample.x < 65536
        /\ 0 <= sample.y /\ sample.y < 65536)
          => /\ ret.x = BitAnd((sample.x \div 16) % 256, 255 \div Pow2(val))
             /\ ret.y = BitAnd((sample.y \div 16) % 256, 255 \div Pow2(val))

C10_Witness ==
    /\ pc = "jitter_sample_done"
    /\ layout = "le64"
    /\ sample.x = 4095
    /\ sample.y = 17
    /\ val = 1
    /\ ret = Smp(127, 1)

====
